---- MODULE Spec2Model ----
(***************************************************************************)
(* Model of pricecypher.datasets.Datasets: the memoized dataset listing    *)
(* (index / get_meta), the resolution of the dataset-service base, and     *)
(* get_transactions: column resolution, request construction, the paged    *)
(* fetch with its per-page task, and the final data frame.                 *)
(*                                                                         *)
(* Python values are modelled as follows.                                  *)
(*   dict            a function whose DOMAIN is the set of keys present    *)
(*   list            a sequence                                            *)
(*   None (scope)    the record NoneScope                                  *)
(*   None (str/date) the string "None"                                     *)
(*   DataFrame       the sequence of its row dicts; its columns are the    *)
(*                   keys of the rows                                      *)
(*   exception       outcome.kind, with outcome.at the function or         *)
(*                   statement that raised it                              *)
(***************************************************************************)
EXTENDS Integers, Sequences, FiniteSets, TLC

VARIABLES
    dss_base,      \* self._dss_base: "None" or the base url given at construction
    all_meta,      \* self._all_meta: [fetched |-> FALSE] is None
    net,           \* the requests issued so far, in order of issue
    pc,            \* position of the get_transactions call
    args,          \* the arguments of the get_transactions call
    dss,           \* local dss_base of get_transactions (line 182)
    all_scopes,    \* local all_scopes of _add_scopes (line 274)
    cols,          \* local columns_with_scopes (line 184)
    scope_keys,    \* local scope_keys (line 186)
    request_data,  \* local request_data (lines 200-229)
    opts,          \* aggregate, intake_status, filter_transaction_ids as read
    remote_pages,  \* the pages the dataset service holds for the query
    page_nr,       \* number of pages the endpoint has delivered
    transactions,  \* raw records the endpoint has collected
    tasks,         \* the tasks created by asyncio.create_task (line 235)
    sink_calls,    \* invocations of the callable the caller passed as page_cb;
                   \* no statement of get_transactions calls it (see bound_page_cb)
    outcome,       \* how the get_transactions call ended
    mpc,           \* position of each concurrent index()/get_meta() caller
    mret,          \* what each caller's call was given and returned
    session,       \* the `async with` scope the instance is used in, and
                   \* self._client
    script         \* a ScopeScript.execute call: its arguments, its position,
                   \* the invocations of execute_scope_script, and how it ended

vars == <<dss_base, all_meta, net, pc, args, dss, all_scopes, cols, scope_keys,
          request_data, opts, remote_pages, page_nr, transactions, tasks,
          sink_calls, outcome, mpc, mret, session, script>>

----------------------------------------------------------------------------
\* Bounds of the model.

\* Longest column list passed to get_transactions.
MaxCols == 2
\* Most pages the endpoint delivers for one query.
MaxPages == 2
\* Most tasks one page's task chain creates after the first (a task that finds
\* no column in its page creates a further task, without end).
MaxRespawn == 1
\* Number of concurrent index()/get_meta() callers.
NCallers == 2
\* Number of concurrent callers of get_scopes, get_scope_values and
\* get_transaction_summary next to the get_transactions call.
NOpCallers == 1
\* Longest list of transaction ids passed to ScopeScript.execute.
MaxIds == 2

----------------------------------------------------------------------------
\* Python values.

\* The empty dict.
EmptyDict == [k \in {} |-> 0]

\* d[k] = v on a dict: the key keeps its place when present, is added otherwise.
DictSet(d, k, v) == [x \in (DOMAIN d) \cup {k} |-> IF x = k THEN v ELSE d[x]]

\* The scope value None that ScopeCollection.find_by_* returns on a miss.
NoneScope == [id |-> 0, representation |-> "", name_dataset |-> ""]

Range(s) == {s[i] : i \in DOMAIN s}

\* All sequences over S of length at most n.
SeqsUpTo(S, n) == UNION {[1..k -> S] : k \in 0..n}

----------------------------------------------------------------------------
\* The remote services.

\* What the users service lists: the datasets and their dataset-service base.
Datasets == << [id |-> 2, dss_url |-> "dss_b"], [id |-> 1, dss_url |-> "dss_a"] >>
\* A later listing of the users service (its answer may change over time).
DatasetsLater == << [id |-> 1, dss_url |-> "dss_c"] >>

\* The scopes the dataset service lists for a (dataset, business cell) pair.
ScopeCatalog ==
    << [id |-> 1, representation |-> "rev", name_dataset |-> "revenue_ds"],
       [id |-> 2, representation |-> "cost", name_dataset |-> "cost_ds"] >>

\* The scope values the dataset service holds for a scope.
ScopeValues(scope_id) ==
    IF scope_id = 2
    THEN << [id |-> 21, scope_id |-> 2, value |-> "A"],
            [id |-> 22, scope_id |-> 2, value |-> "B"],
            [id |-> 23, scope_id |-> 2, value |-> "C"] >>
    ELSE << [id |-> 11, scope_id |-> scope_id, value |-> "A"] >>

\* Raw transaction records: the value of every scope on the record.
T1 == [s \in {1, 2} |-> IF s = 1 THEN "x1" ELSE "y1"]
T2 == [s \in {1, 2} |-> IF s = 1 THEN "x2" ELSE "y2"]

\* The pages the endpoint may deliver: an empty page, and a page with records.
PageChoices == { <<>>, <<T2, T1>> }

----------------------------------------------------------------------------
\* Arguments of get_transactions.

\* Dataset 1 is listed by the users service, dataset 3 is not.
DatasetIds == {1, 3}

\* The column dicts callers pass.
ColumnChoices ==
    { [scope_id |-> 1, key |-> "rev"],
      [scope_id |-> 2, filter |-> <<>>, aggregate |-> ""],
      [name_dataset |-> "revenue_ds", aggregate |-> "avg"],
      [representation |-> "cost", aggregate |-> "sum"],
      [representation |-> "cost", filter |-> <<"A", "B">>, aggregate |-> "sum"],
      [scope_id |-> 3],
      EmptyDict,
      [scope_id |-> 1, representation |-> "cost"] }

\* start_date_time / end_date_time: None, a datetime, or a value of another type.
TimeChoices == {"None", "datetime", "str"}

\* page_cb: None, or a callable of the caller.
SinkChoices == {"None", "sink"}

\* aggregate, intake_status and filter_transaction_ids.
AggregateChoices == BOOLEAN
IntakeChoices == {"None", "done"}
\* The class attribute default_dss_intake_status: None, or a status set on it.
DefaultIntakeChoices == {"None", "staged"}
TransactionIdChoices == {"None", "ids"}

\* Every call the model makes.
ArgChoices ==
    [dataset_id : DatasetIds,
     columns : SeqsUpTo(ColumnChoices, MaxCols),
     start_date_time : TimeChoices,
     end_date_time : TimeChoices,
     page_cb : SinkChoices]

\* The calls made to follow the paged fetch: columns that resolve and carry no
\* filter, and no time window.
FetchArgChoices ==
    {a \in ArgChoices :
        /\ a.dataset_id = 1
        /\ a.columns \in { <<>>,
                           <<[representation |-> "cost", aggregate |-> "sum"]>>,
                           <<[name_dataset |-> "revenue_ds", aggregate |-> "avg"],
                             [representation |-> "cost", aggregate |-> "sum"]>> }
        /\ a.start_date_time = "None"
        /\ a.end_date_time = "None"}

\* The get_transactions calls made next to calls of the other operations: no
\* sink, and at most one column.
OpsArgChoices ==
    {a \in FetchArgChoices : a.page_cb = "None" /\ Len(a.columns) <= 1}

\* The arguments while no get_transactions call is made.
NoArgs == [dataset_id |-> 1, columns |-> <<>>, start_date_time |-> "None",
           end_date_time |-> "None", page_cb |-> "None"]

NoOpts == [aggregate |-> FALSE, intake_status |-> "None",
           filter_transaction_ids |-> "None",
           default_dss_intake_status |-> "None"]

----------------------------------------------------------------------------
\* ScopeCollection, ScopeValueCollection and Transaction (pricecypher.collections
\* and pricecypher.models).

\* ScopeCollection.find_by_id / find_by_repr / find_by_name_dataset: the scope
\* whose field equals the value, or None.
FindBy(scopes, field, value) ==
    IF \E i \in DOMAIN scopes : scopes[i][field] = value
    THEN scopes[CHOOSE i \in DOMAIN scopes : scopes[i][field] = value]
    ELSE NoneScope

\* ScopeValueCollection.where_in(values): the scope values whose literal value is
\* a member of values, in the collection's order.
where_in(scope_values, values) ==
    SelectSeq(scope_values, LAMBDA sv : sv.value \in Range(values))

\* Collection.pluck('id').
pluck_id(scope_values) == [i \in DOMAIN scope_values |-> scope_values[i].id]

\* Transaction.to_dict(scope_keys): one entry per scope of the map, under the
\* scope's key, holding the record's value for that scope.
to_dict(t, keys) ==
    [k \in {keys[s] : s \in DOMAIN keys} |->
        t[CHOOSE s \in DOMAIN keys : keys[s] = k]]

\* The column labels of a DataFrame; iterating a DataFrame yields these.
Columns(df) == UNION {DOMAIN df[i] : i \in DOMAIN df}

----------------------------------------------------------------------------
\* Datasets: the synchronous helpers.

\* get_meta: next((d for d in index if d.id == dataset_id), None); holds when
\* the generator yields a dataset.
HasMeta(datasets, dataset_id) ==
    \E i \in DOMAIN datasets : datasets[i].id = dataset_id

\* A variant of MetaDssUrl that reads the first dataset of the listing.
MetaDssUrlFirst(datasets, dataset_id) == datasets[1].dss_url

\* get_meta(dataset_id).dss_url for a dataset that is listed.
MetaDssUrl(datasets, dataset_id) ==
    datasets[CHOOSE i \in DOMAIN datasets :
                /\ datasets[i].id = dataset_id
                /\ \A j \in 1..(i - 1) : datasets[j].id # dataset_id].dss_url

\* ('scope_id' in column) + ('representation' in column) + ('name_dataset' in column)
SelectorCount(column) ==
    (IF "scope_id" \in DOMAIN column THEN 1 ELSE 0)
    + (IF "representation" \in DOMAIN column THEN 1 ELSE 0)
    + (IF "name_dataset" \in DOMAIN column THEN 1 ELSE 0)

\* A variant of add_scope_raises that rejects only a column without a selector.
add_scope_raises_none_only(column) == SelectorCount(column) = 0

\* add_scope raises ValueError for the column.
add_scope_raises(column) == SelectorCount(column) # 1

\* The scope add_scope looks up for a column it does not reject.
add_scope_lookup(scopes, column) ==
    IF "scope_id" \in DOMAIN column
    THEN FindBy(scopes, "id", column.scope_id)
    ELSE IF "representation" \in DOMAIN column
    THEN FindBy(scopes, "representation", column.representation)
    ELSE FindBy(scopes, "name_dataset", column.name_dataset)

\* A variant of spread_source in which the entry is assigned on the dict that
\* was passed in: column[k] = v.
spread_source_assigned(column, k, v) == DictSet(column, k, v)

\* The dict passed in, after {**column, k: v} has built its result from it
\* (lines 290 and 311): the expression builds a new dict and leaves the
\* dict it spreads as it was.
spread_source(column, k, v) == column

\* add_scope: {**column, 'scope': scope}.
add_scope(scopes, column) ==
    DictSet(column, "scope", add_scope_lookup(scopes, column))

\* _add_scopes after the listing has returned: list(map(add_scope, columns)).
add_scopes(scopes, columns) ==
    [i \in DOMAIN columns |-> add_scope(scopes, columns[i])]

\* The index of the first column add_scope rejects; map stops there.
FirstRejected(columns) ==
    IF \E i \in DOMAIN columns : add_scope_raises(columns[i])
    THEN CHOOSE i \in DOMAIN columns :
            /\ add_scope_raises(columns[i])
            /\ \A j \in 1..(i - 1) : ~add_scope_raises(columns[j])
    ELSE Len(columns) + 1

\* The list the caller passed, after list(map(add_scope, columns)) has run or
\* raised: add_scope ran to its end on every column before the first rejected
\* one; the list itself is only iterated.
columns_after_add_scopes(scopes, columns) ==
    [i \in DOMAIN columns |->
        IF i < FirstRejected(columns)
        THEN spread_source(columns[i], "scope",
                           add_scope_lookup(scopes, columns[i]))
        ELSE columns[i]]

\* columns_with_scopes after the comprehension of lines 191-193 has called
\* _add_scope_values on its columns that have a filter.
columns_after_add_scope_values(columns) ==
    [i \in DOMAIN columns |->
        IF "filter" \in DOMAIN columns[i] /\ columns[i].filter # <<>>
        THEN spread_source(columns[i], "scope_values",
                           [coroutine |-> "get_scope_values",
                            scope_id |-> columns[i].scope.id])
        ELSE columns[i]]

\* dict.get(c, 'filter') is truthy.
HasFilter(column) == "filter" \in DOMAIN column /\ column.filter # <<>>

\* dict.get(c, 'aggregate') is truthy.
HasAggregate(column) == "aggregate" \in DOMAIN column /\ column.aggregate # ""

\* f'scope_{scope.id}'
DefaultKey(scope_id) == "scope_" \o ToString(scope_id)

\* A variant of SetScopeKey that keeps the key a scope already has.
SetScopeKeyFirstWins(keys, scope_id, key) ==
    IF scope_id \in DOMAIN keys THEN keys ELSE DictSet(keys, scope_id, key)

\* scope_keys[scope.id] = key
SetScopeKey(keys, scope_id, key) == DictSet(keys, scope_id, key)

\* _find_scope_keys, for columns that all hold a scope that is not None.
RECURSIVE find_scope_keys_loop(_, _)
find_scope_keys_loop(columns, keys) ==
    IF columns = <<>> THEN keys
    ELSE LET column == Head(columns)
             key == IF "key" \in DOMAIN column THEN column.key
                    ELSE DefaultKey(column.scope.id)
         IN find_scope_keys_loop(Tail(columns),
                                 SetScopeKey(keys, column.scope.id, key))

find_scope_keys(columns) == find_scope_keys_loop(columns, EmptyDict)

\* A variant of find_scope_keys_raises in which reading the id of None yields 0
\* and raises nothing.
find_scope_keys_tolerant(columns) == FALSE

\* _find_scope_keys raises AttributeError: scope.id is read on None.
find_scope_keys_raises(columns) ==
    \E i \in DOMAIN columns : columns[i].scope = NoneScope

\* self.get_scope_values(...) called without await: the coroutine object of the
\* async method; its body has not run.
Coroutine(scope_id) == [coroutine |-> "get_scope_values", scope_id |-> scope_id]

IsCoroutine(v) == "coroutine" \in DOMAIN v

\* _add_scope_values: {**column, 'scope_values': scope_values}.
add_scope_values(column) ==
    DictSet(column, "scope_values", Coroutine(column.scope.id))

\* [self._add_scope_values(...) for c in columns_with_scopes if dict.get(c, 'filter')]
columns_with_values(columns) ==
    LET kept == SelectSeq(columns, HasFilter)
    IN [i \in DOMAIN kept |-> add_scope_values(kept[i])]

\* _find_scope_value_filters. A coroutine object is truthy and has no where_in:
\* the first column with a filter and such scope_values raises AttributeError.
RECURSIVE find_scope_value_filters(_)
find_scope_value_filters(columns) ==
    IF columns = <<>> THEN [raised |-> FALSE, filters |-> <<>>]
    ELSE LET column == Head(columns)
             rest == find_scope_value_filters(Tail(columns))
         IN IF ~HasFilter(column) \/ "scope_values" \notin DOMAIN column
            THEN rest
            ELSE IF IsCoroutine(column.scope_values)
            THEN [raised |-> TRUE, filters |-> <<>>]
            ELSE [raised |-> rest.raised,
                  filters |-> IF rest.raised THEN <<>>
                              ELSE pluck_id(where_in(column.scope_values.items,
                                                     column.filter)) \o rest.filters]

\* _find_aggregation_methods.
RECURSIVE find_aggregation_methods(_)
find_aggregation_methods(columns) ==
    IF columns = <<>> THEN <<>>
    ELSE LET column == Head(columns)
             rest == find_aggregation_methods(Tail(columns))
         IN IF ~HasAggregate(column) \/ column.scope = NoneScope
            THEN rest
            ELSE <<[scope_id |-> column.scope.id, method |-> column.aggregate]>>
                 \o rest

\* select_scopes = [c['scope'].id for c in columns_with_scopes]
select_scopes(columns) == [i \in DOMAIN columns |-> columns[i].scope.id]

\* A variant of transactions_to_df that keeps one row per distinct record.
transactions_to_df_distinct(records, keys) ==
    LET first == SelectSeq([i \in DOMAIN records |-> i],
                           LAMBDA i : \A j \in 1..(i - 1) : records[j] # records[i])
    IN [n \in DOMAIN first |-> to_dict(records[first[n]], keys)]

\* _transactions_to_df over a list of raw records.
transactions_to_df(records, keys) ==
    [i \in DOMAIN records |-> to_dict(records[i], keys)]

----------------------------------------------------------------------------
\* Datasets.get_transactions: request construction (lines 196-229).

\* A variant of intake_status_used in which the class default, when set, takes
\* precedence over the argument.
intake_status_default_first(o) ==
    IF o.default_dss_intake_status # "None" THEN o.default_dss_intake_status
    ELSE o.intake_status

\* Lines 206-207 (and 137-138): the intake status that is used.
intake_status_used(o) ==
    IF o.intake_status = "None" THEN o.default_dss_intake_status
    ELSE o.intake_status

\* A variant of time_check without the elif branch: any other value is dropped.
time_check_lenient(value) == IF value = "datetime" THEN "set" ELSE "omit"

\* isinstance(value, datetime) / elif value is not None, for one time boundary.
time_check(value) ==
    IF value = "datetime" THEN "set"
    ELSE IF value # "None" THEN "raise"
    ELSE "omit"

\* if len(filters) > 0
include_filters(filters) == Len(filters) > 0

\* A variant of include_aggregation_methods that always attaches the list.
include_aggregation_methods_always(methods) == TRUE

\* if len(aggregation_methods) > 0
include_aggregation_methods(methods) == Len(methods) > 0

Entry(cond, k, v) == IF cond THEN [x \in {k} |-> v] ELSE EmptyDict

\* request_data as it stands after line 229, when neither time check raises.
build_request_data(o, columns, filters, start_date_time, end_date_time) ==
    LET methods == find_aggregation_methods(columns)
    IN [aggregate |-> o.aggregate, select_scopes |-> select_scopes(columns)]
       @@ Entry(intake_status_used(o) # "None", "intake_status",
                intake_status_used(o))
       @@ Entry(o.filter_transaction_ids # "None", "filter_transaction_ids",
                o.filter_transaction_ids)
       @@ Entry(include_filters(filters), "filter_scope_values", filters)
       @@ Entry(include_aggregation_methods(methods), "aggregation_methods",
                methods)
       @@ Entry(time_check(start_date_time) = "set", "start_date_time",
                start_date_time)
       @@ Entry(time_check(end_date_time) = "set", "end_date_time",
                end_date_time)

----------------------------------------------------------------------------
\* Datasets.get_transactions: the nested page_cb (lines 231-235).

\* What the name page_cb is bound to once line 231 has run: the nested function,
\* whatever the caller passed; the closure of the nested function reads the same
\* variable.
bound_page_cb(argument) == "nested"

\* A variant of create_task in which the nested page_cb awaits the coroutine.
create_task_awaited(page, nr, last, depth) ==
    [page |-> page, page_nr |-> nr, last_page |-> last, state |-> "pending",
     awaited |-> TRUE, depth |-> depth]

\* asyncio.create_task(coroutine): a task that runs later, awaited by nobody.
create_task(page, nr, last, depth) ==
    [page |-> page, page_nr |-> nr, last_page |-> last, state |-> "pending",
     awaited |-> FALSE, depth |-> depth]

\* _transactions_to_df raises when handed a DataFrame that has columns: the loop
\* `for t in transactions` yields the column labels, and str has no to_dict.
frame_rows_raise(df) == Columns(df) # {}

\* The fetch loop is suspended in a coroutine it awaits. Line 235 awaits none:
\* every task comes from create_task, so this never holds.
Blocked == \E i \in DOMAIN tasks : tasks[i].awaited /\ tasks[i].state = "pending"

----------------------------------------------------------------------------
\* The state after Datasets(bearer_token, users_base, dss_base) is constructed,
\* with the call that is about to be made and what the remote services hold.

NoMeta == [fetched |-> FALSE, datasets |-> <<>>]
Running == [kind |-> "running", at |-> "", table |-> <<>>]
Raised(kind, at) == [kind |-> kind, at |-> at, table |-> <<>>]
Returned(df) == [kind |-> "returned", at |-> "", table |-> df]

Callers == 1..NCallers

\* No ScopeScript.execute call is made.
NoScript == [pc |-> "none"]

InitInstance ==
    /\ dss_base \in {"None", "dss_x"}
    /\ all_meta = NoMeta
    /\ net = <<>>
    /\ pc = "idle"
    /\ dss = "None"
    /\ all_scopes = <<>>
    /\ cols = <<>>
    /\ scope_keys = EmptyDict
    /\ request_data = EmptyDict
    /\ opts = NoOpts
    /\ page_nr = 0
    /\ transactions = <<>>
    /\ tasks = <<>>
    /\ sink_calls = <<>>
    /\ outcome = Running
    /\ mpc = [c \in Callers |-> "idle"]
    /\ mret = [c \in Callers |-> [op |-> "none", listing |-> <<>>]]
    /\ session = [state |-> "entered", client |-> "open", raised |-> "None",
                  propagated |-> "None"]

\* Any call, against a query of one page.
Init ==
    /\ InitInstance
    /\ script = NoScript
    /\ args \in ArgChoices
    /\ remote_pages = << <<T2, T1>> >>

\* The calls that reach the fetch, against queries of up to MaxPages pages.
InitFetch ==
    /\ InitInstance
    /\ script = NoScript
    /\ args \in FetchArgChoices
    /\ remote_pages \in SeqsUpTo(PageChoices, MaxPages) \ {<<>>}

\* No get_transactions call; the callers of index() and get_meta().
InitMeta ==
    /\ InitInstance
    /\ script = NoScript
    /\ args = NoArgs
    /\ remote_pages = <<>>

\* A get_transactions call next to calls of the other operations, all inside
\* one `async with` scope, against a query of one page.
InitOps ==
    /\ InitInstance
    /\ script = NoScript
    /\ args \in OpsArgChoices
    /\ remote_pages = << <<T2, T1>> >>

----------------------------------------------------------------------------
\* get_transactions.

Fail(kind, at) ==
    /\ outcome' = Raised(kind, at)
    /\ pc' = "done"

\* A variant of GetDssBase that requests the dataset listing even when a base was
\* given at construction.
GetDssBaseIgnoresGiven ==
    /\ pc = "idle"
    /\ net' = Append(net, "datasets")
    /\ pc' = "await_index"
    /\ UNCHANGED <<dss_base, all_meta, args, dss, all_scopes, cols, scope_keys,
                   request_data, opts, remote_pages, page_nr, transactions,
                   tasks, sink_calls, outcome, mpc, mret, session, script>>

\* Line 182, _get_dss_base: the base given at construction, or get_meta -> index,
\* which requests the dataset listing when _all_meta is None and reads the
\* memoized listing otherwise.
GetDssBase ==
    /\ pc = "idle"
    /\ IF dss_base # "None"
       THEN /\ dss' = dss_base
            /\ pc' = "get_scopes"
            /\ UNCHANGED <<net, outcome>>
       ELSE IF ~all_meta.fetched
       THEN /\ net' = Append(net, "datasets")
            /\ pc' = "await_index"
            /\ UNCHANGED <<dss, outcome>>
       ELSE IF HasMeta(all_meta.datasets, args.dataset_id)
       THEN /\ dss' = MetaDssUrl(all_meta.datasets, args.dataset_id)
            /\ pc' = "get_scopes"
            /\ UNCHANGED <<net, outcome>>
       ELSE /\ Fail("AttributeError", "_get_dss_base")
            /\ UNCHANGED <<dss, net>>
    /\ UNCHANGED <<dss_base, all_meta, args, all_scopes, cols, scope_keys,
                   request_data, opts, remote_pages, page_nr, transactions,
                   tasks, sink_calls, mpc, mret, session, script>>

\* The dataset listing returns: index stores it in _all_meta, get_meta picks the
\* dataset (or None), and _get_dss_base reads meta.dss_url.
IndexReturns ==
    /\ pc = "await_index"
    /\ all_meta' = [fetched |-> TRUE, datasets |-> Datasets]
    /\ IF HasMeta(Datasets, args.dataset_id)
       THEN /\ dss' = MetaDssUrl(Datasets, args.dataset_id)
            /\ pc' = "get_scopes"
            /\ UNCHANGED outcome
       ELSE /\ Fail("AttributeError", "_get_dss_base")
            /\ UNCHANGED dss
    /\ UNCHANGED <<dss_base, net, args, all_scopes, cols, scope_keys,
                   request_data, opts, remote_pages, page_nr, transactions,
                   tasks, sink_calls, mpc, mret, session, script>>

\* A variant of RequestFails in which a failure of the transaction query is
\* caught and the records collected so far are returned as the table.
RequestFailsReturnsCollected ==
    /\ pc \in {"await_index", "await_scopes", "fetching"}
    /\ ~Blocked
    /\ IF pc = "fetching"
       THEN /\ outcome' = Returned(transactions_to_df(transactions, scope_keys))
            /\ pc' = "done"
       ELSE Fail("TransportError", pc)
    /\ UNCHANGED <<dss_base, all_meta, net, args, dss, all_scopes, cols,
                   scope_keys, request_data, opts, remote_pages, page_nr,
                   transactions, tasks, sink_calls, mpc, mret, session, script>>

\* A request of the call fails in the transport: the failure propagates.
RequestFails ==
    /\ pc \in {"await_index", "await_scopes", "fetching"}
    /\ ~Blocked
    /\ Fail("TransportError", pc)
    /\ UNCHANGED <<dss_base, all_meta, net, args, dss, all_scopes, cols,
                   scope_keys, request_data, opts, remote_pages, page_nr,
                   transactions, tasks, sink_calls, mpc, mret, session, script>>

\* Line 184 -> 274 -> 99: get_scopes resolves the base again (given, or from the
\* memoized listing) and requests the scope listing.
GetScopes ==
    /\ pc = "get_scopes"
    /\ dss' = IF dss_base # "None" THEN dss_base
              ELSE MetaDssUrl(all_meta.datasets, args.dataset_id)
    /\ net' = Append(net, "scopes")
    /\ pc' = "await_scopes"
    /\ UNCHANGED <<dss_base, all_meta, args, all_scopes, cols, scope_keys,
                   request_data, opts, remote_pages, page_nr, transactions,
                   tasks, sink_calls, outcome, mpc, mret, session, script>>

\* The scope listing returns (line 274).
ScopesReturn ==
    /\ pc = "await_scopes"
    /\ all_scopes' = ScopeCatalog
    /\ pc' = "add_scopes"
    /\ UNCHANGED <<dss_base, all_meta, net, args, dss, cols, scope_keys,
                   request_data, opts, remote_pages, page_nr, transactions,
                   tasks, sink_calls, outcome, mpc, mret, session, script>>

\* Lines 276-292: list(map(add_scope, columns)).
AddScopes ==
    /\ pc = "add_scopes"
    /\ IF \E i \in DOMAIN args.columns : add_scope_raises(args.columns[i])
       THEN /\ Fail("ValueError", "add_scope")
            /\ UNCHANGED cols
       ELSE /\ cols' = add_scopes(all_scopes, args.columns)
            /\ pc' = "find_scope_keys"
            /\ UNCHANGED outcome
    /\ args' = [args EXCEPT
                   !.columns = columns_after_add_scopes(all_scopes, args.columns)]
    /\ UNCHANGED <<dss_base, all_meta, net, dss, all_scopes, scope_keys,
                   request_data, opts, remote_pages, page_nr, transactions,
                   tasks, sink_calls, mpc, mret, session, script>>

\* Lines 186-188: scope_keys and select_scopes; both read scope.id.
FindScopeKeys ==
    /\ pc = "find_scope_keys"
    /\ IF find_scope_keys_raises(cols)
       THEN /\ Fail("AttributeError", "_find_scope_keys")
            /\ UNCHANGED scope_keys
       ELSE /\ scope_keys' = find_scope_keys(cols)
            /\ pc' = "build_request"
            /\ UNCHANGED outcome
    /\ UNCHANGED <<dss_base, all_meta, net, args, dss, all_scopes, cols,
                   request_data, opts, remote_pages, page_nr, transactions,
                   tasks, sink_calls, mpc, mret, session, script>>

\* Lines 189-229: the filters, the aggregation methods and request_data. The
\* arguments aggregate, intake_status and filter_transaction_ids, and the class
\* attribute default_dss_intake_status, are first read here.
BuildRequest ==
    /\ pc = "build_request"
    /\ \E a \in AggregateChoices, st \in IntakeChoices,
          dflt \in DefaultIntakeChoices, ids \in TransactionIdChoices :
          LET o == [aggregate |-> a, intake_status |-> st,
                    filter_transaction_ids |-> ids,
                    default_dss_intake_status |-> dflt]
              found == find_scope_value_filters(columns_with_values(cols))
          IN /\ opts' = o
             /\ cols' = columns_after_add_scope_values(cols)
             /\ IF found.raised
                THEN /\ Fail("AttributeError", "_find_scope_value_filters")
                     /\ UNCHANGED request_data
                ELSE IF time_check(args.start_date_time) = "raise"
                THEN /\ Fail("ValueError", "start_date_time")
                     /\ UNCHANGED request_data
                ELSE IF time_check(args.end_date_time) = "raise"
                THEN /\ Fail("ValueError", "end_date_time")
                     /\ UNCHANGED request_data
                ELSE /\ request_data' =
                            build_request_data(o, cols, found.filters,
                                               args.start_date_time,
                                               args.end_date_time)
                     /\ pc' = "send"
                     /\ UNCHANGED outcome
    /\ UNCHANGED <<dss_base, all_meta, net, args, dss, all_scopes, scope_keys,
                   remote_pages, page_nr, transactions, tasks, sink_calls, mpc,
                   mret, session, script>>

\* Lines 238-241: the transaction query is sent with request_data and page_cb.
SendQuery ==
    /\ pc = "send"
    /\ net' = Append(net, "transactions")
    /\ pc' = "fetching"
    /\ UNCHANGED <<dss_base, all_meta, args, dss, all_scopes, cols, scope_keys,
                   request_data, opts, remote_pages, page_nr, transactions,
                   tasks, sink_calls, outcome, mpc, mret, session, script>>

\* The endpoint receives the next page and calls page_cb(page, page_nr,
\* last_page): the nested function builds the page's frame and creates a task for
\* page_cb(frame, page_nr, last_page).
DeliverPage ==
    /\ pc = "fetching"
    /\ ~Blocked
    /\ page_nr < Len(remote_pages)
    /\ LET page == remote_pages[page_nr + 1]
       IN /\ transactions' = transactions \o page
          /\ tasks' = IF bound_page_cb(args.page_cb) # "None"
                      THEN Append(tasks,
                                  create_task(transactions_to_df(page, scope_keys),
                                              page_nr + 1, Len(remote_pages), 0))
                      ELSE tasks
    /\ page_nr' = page_nr + 1
    /\ UNCHANGED <<dss_base, all_meta, net, pc, args, dss, all_scopes, cols,
                   scope_keys, request_data, opts, remote_pages, sink_calls,
                   outcome, mpc, mret, session, script>>

\* Lines 243-248: the endpoint returns every record; the data frame is built
\* from them and returned.
FetchReturns ==
    /\ pc = "fetching"
    /\ ~Blocked
    /\ page_nr = Len(remote_pages)
    /\ outcome' = Returned(transactions_to_df(transactions, scope_keys))
    /\ pc' = "done"
    /\ UNCHANGED <<dss_base, all_meta, net, args, dss, all_scopes, cols,
                   scope_keys, request_data, opts, remote_pages, page_nr,
                   transactions, tasks, sink_calls, mpc, mret, session, script>>

\* The event loop runs a pending task whose page is a frame with columns: the
\* body of the nested page_cb raises inside the task.
TaskRaises(i) ==
    /\ tasks[i].state = "pending"
    /\ bound_page_cb(args.page_cb) = "nested"
    /\ frame_rows_raise(tasks[i].page)
    /\ tasks' = [tasks EXCEPT ![i].state = "failed"]
    /\ IF tasks[i].awaited
       THEN Fail("AttributeError", "page_cb")
       ELSE UNCHANGED <<pc, outcome>>
    /\ UNCHANGED <<dss_base, all_meta, net, args, dss, all_scopes, cols,
                   scope_keys, request_data, opts, remote_pages, page_nr,
                   transactions, sink_calls, mpc, mret, session, script>>

\* The event loop runs a pending task whose page is a frame without columns: the
\* body builds an empty frame from it and creates a further task for it.
TaskRespawns(i) ==
    /\ tasks[i].state = "pending"
    /\ bound_page_cb(args.page_cb) = "nested"
    /\ ~frame_rows_raise(tasks[i].page)
    /\ tasks[i].depth < MaxRespawn
    /\ tasks' = Append([tasks EXCEPT ![i].state = "done"],
                       create_task(<<>>, tasks[i].page_nr, tasks[i].last_page,
                                   tasks[i].depth + 1))
    /\ UNCHANGED <<dss_base, all_meta, net, pc, args, dss, all_scopes, cols,
                   scope_keys, request_data, opts, remote_pages, page_nr,
                   transactions, sink_calls, outcome, mpc, mret,
                   session, script>>

Next ==
    \/ GetDssBase
    \/ IndexReturns
    \/ RequestFails
    \/ GetScopes
    \/ ScopesReturn
    \/ AddScopes
    \/ FindScopeKeys
    \/ BuildRequest
    \/ SendQuery
    \/ DeliverPage
    \/ FetchReturns
    \/ \E i \in DOMAIN tasks : TaskRaises(i)
    \/ \E i \in DOMAIN tasks : TaskRespawns(i)

Spec == Init /\ [][Next]_vars

SpecFetch == InitFetch /\ [][Next]_vars

----------------------------------------------------------------------------
\* index() and get_meta() called by concurrent callers (lines 67-87).

\* A caller enters index(), directly or through get_meta(): with _all_meta set it
\* returns it; with _all_meta None it requests the listing and is suspended.
IndexCall(c) ==
    /\ mpc[c] = "idle"
    /\ \E op \in {"index", "get_meta"} :
          IF all_meta.fetched
          THEN /\ mret' = [mret EXCEPT ![c] = [op |-> op,
                                               listing |-> all_meta.datasets]]
               /\ mpc' = [mpc EXCEPT ![c] = "done"]
               /\ UNCHANGED net
          ELSE /\ mret' = [mret EXCEPT ![c] = [op |-> op, listing |-> <<>>]]
               /\ mpc' = [mpc EXCEPT ![c] = "await"]
               /\ net' = Append(net, "datasets")
    /\ UNCHANGED <<dss_base, all_meta, pc, args, dss, all_scopes, cols, scope_keys,
                   request_data, opts, remote_pages, page_nr, transactions,
                   tasks, sink_calls, outcome, session, script>>

\* The listing a suspended caller requested arrives: it is stored in _all_meta
\* and returned.
IndexResumes(c) ==
    /\ mpc[c] = "await"
    /\ \E listing \in {Datasets, DatasetsLater} :
          /\ all_meta' = [fetched |-> TRUE, datasets |-> listing]
          /\ mret' = [mret EXCEPT ![c].listing = listing]
    /\ mpc' = [mpc EXCEPT ![c] = "done"]
    /\ UNCHANGED <<dss_base, net, pc, args, dss, all_scopes, cols, scope_keys,
                   request_data, opts, remote_pages, page_nr, transactions,
                   tasks, sink_calls, outcome, session, script>>

\* The listing request of a suspended caller fails: the caller's call raises.
IndexFails(c) ==
    /\ mpc[c] = "await"
    /\ mpc' = [mpc EXCEPT ![c] = "failed"]
    /\ UNCHANGED <<dss_base, all_meta, net, pc, args, dss, all_scopes, cols,
                   scope_keys, request_data, opts, remote_pages, page_nr,
                   transactions, tasks, sink_calls, outcome, mret,
                   session, script>>

NextMeta ==
    \/ \E c \in Callers : IndexCall(c)
    \/ \E c \in Callers : IndexResumes(c)
    \/ \E c \in Callers : IndexFails(c)

SpecMeta == InitMeta /\ [][NextMeta]_vars

----------------------------------------------------------------------------
\* get_scopes, get_scope_values and get_transaction_summary (lines 89-143),
\* called for the dataset of the get_transactions call and business cell 'all',
\* and the end of the `async with` scope (lines 45-49).

OpCallers == 1..NOpCallers

Ops == {"get_scopes", "get_scope_values", "get_transaction_summary"}

\* The request an operation issues once it has the base.
RequestOf(op) ==
    IF op = "get_scopes" THEN "scopes"
    ELSE IF op = "get_scope_values" THEN "scope_values"
    ELSE "summary"

\* A caller calls one of the operations. get_transaction_summary first replaces
\* an intake_status of None by the class default (lines 137-138). Then
\* _get_dss_base: with a base given at construction, or a memoized listing, the
\* base is known and the operation's request is issued; with neither, index()
\* requests the dataset listing and the caller is suspended. Callers are
\* numbered in the order of their calls.
OpCall(c) ==
    /\ mpc[c] = "idle"
    /\ \A d \in 1..(c - 1) : mpc[d] # "idle"
    /\ session.state = "entered"
    /\ \E op \in Ops, st \in IntakeChoices, dflt \in DefaultIntakeChoices :
          /\ op # "get_transaction_summary" => (st = "None" /\ dflt = "None")
          /\ LET o == [intake_status |-> st, default_dss_intake_status |-> dflt]
                 call == [op |-> op, listing |-> <<>>, intake_status |-> st,
                          default_dss_intake_status |-> dflt,
                          sent |-> intake_status_used(o), base |-> "None"]
             IN IF dss_base # "None"
                THEN /\ mret' = [mret EXCEPT ![c] = [call EXCEPT !.base = dss_base]]
                     /\ net' = Append(net, RequestOf(op))
                     /\ mpc' = [mpc EXCEPT ![c] = "await_op"]
                ELSE IF ~all_meta.fetched
                THEN /\ mret' = [mret EXCEPT ![c] = call]
                     /\ net' = Append(net, "datasets")
                     /\ mpc' = [mpc EXCEPT ![c] = "await_index"]
                ELSE IF HasMeta(all_meta.datasets, args.dataset_id)
                THEN /\ mret' = [mret EXCEPT ![c] =
                                   [call EXCEPT !.base =
                                       MetaDssUrl(all_meta.datasets,
                                                  args.dataset_id)]]
                     /\ net' = Append(net, RequestOf(op))
                     /\ mpc' = [mpc EXCEPT ![c] = "await_op"]
                ELSE /\ mret' = [mret EXCEPT ![c] = call]
                     /\ mpc' = [mpc EXCEPT ![c] = "failed"]
                     /\ UNCHANGED net
    /\ UNCHANGED <<dss_base, all_meta, pc, args, dss, all_scopes, cols, scope_keys,
                   request_data, opts, remote_pages, page_nr, transactions,
                   tasks, sink_calls, outcome, session, script>>

\* The dataset listing a suspended caller requested arrives: index stores it,
\* get_meta picks the dataset, and the operation's request is issued to the
\* dataset's dss_url.
OpIndexReturns(c) ==
    /\ mpc[c] = "await_index"
    /\ all_meta' = [fetched |-> TRUE, datasets |-> Datasets]
    /\ IF HasMeta(Datasets, args.dataset_id)
       THEN /\ mret' = [mret EXCEPT ![c].base =
                           MetaDssUrl(Datasets, args.dataset_id)]
            /\ net' = Append(net, RequestOf(mret[c].op))
            /\ mpc' = [mpc EXCEPT ![c] = "await_op"]
       ELSE /\ mpc' = [mpc EXCEPT ![c] = "failed"]
            /\ UNCHANGED <<mret, net>>
    /\ UNCHANGED <<dss_base, pc, args, dss, all_scopes, cols, scope_keys,
                   request_data, opts, remote_pages, page_nr, transactions,
                   tasks, sink_calls, outcome, session, script>>

\* The operation's request returns, and so does the call.
OpReturns(c) ==
    /\ mpc[c] = "await_op"
    /\ mpc' = [mpc EXCEPT ![c] = "done"]
    /\ UNCHANGED <<dss_base, all_meta, net, pc, args, dss, all_scopes, cols,
                   scope_keys, request_data, opts, remote_pages, page_nr,
                   transactions, tasks, sink_calls, outcome, mret,
                   session, script>>

\* A request of the caller fails in the transport: the call raises.
OpFails(c) ==
    /\ mpc[c] \in {"await_index", "await_op"}
    /\ mpc' = [mpc EXCEPT ![c] = "failed"]
    /\ UNCHANGED <<dss_base, all_meta, net, pc, args, dss, all_scopes, cols,
                   scope_keys, request_data, opts, remote_pages, page_nr,
                   transactions, tasks, sink_calls, outcome, mret,
                   session, script>>

\* A variant of aexit_returns: __aexit__ ends with `return True`.
aexit_returns_true == "True"

\* What __aexit__ returns: line 49 is its last statement and returns nothing.
aexit_returns == "None"

\* RestClient.close(): the client's connections are released.
close(client) == "closed"

\* The exception with which the block of the `async with` statement ends: that
\* of the get_transactions call, else that of a call of another operation.
BlockException ==
    IF outcome.kind # "returned" THEN outcome.kind
    ELSE IF \E c \in Callers : mpc[c] = "failed" THEN "TransportError"
    ELSE "None"

\* The block of the `async with` statement ends, normally or by an exception,
\* once its calls have ended: __aexit__ awaits self._client.close(), and the
\* statement raises the block's exception again unless __aexit__ returned a
\* true value.
AExit ==
    /\ session.state = "entered"
    /\ pc = "done"
    /\ \A c \in Callers : mpc[c] \in {"idle", "done", "failed"}
    /\ session' = [state |-> "exited",
                   client |-> close(session.client),
                   raised |-> BlockException,
                   propagated |-> IF aexit_returns = "True" THEN "None"
                                  ELSE BlockException]
    /\ UNCHANGED <<dss_base, all_meta, net, pc, args, dss, all_scopes, cols,
                   scope_keys, request_data, opts, remote_pages, page_nr,
                   transactions, tasks, sink_calls, outcome, mpc, mret, script>>

NextOps ==
    \/ Next
    \/ \E c \in OpCallers : OpCall(c)
    \/ \E c \in OpCallers : OpIndexReturns(c)
    \/ \E c \in OpCallers : OpReturns(c)
    \/ \E c \in OpCallers : OpFails(c)
    \/ AExit

SpecOps == InitOps /\ [][NextOps]_vars

----------------------------------------------------------------------------
\* contracts/ScopeScript.py: ScopeScript.execute (lines 14-20) and the
\* execute_scope_script of the subclass that is instantiated (lines 22-37).

\* business_cell_id: None, or a business cell.
BusinessCellChoices == {"None", "bc_7"}

BearerChoices == {"token_a", "token_b"}

TransactionIds == {1, 2}

\* user_input: a dict with or without the key 'transaction_ids', and with or
\* without another key that holds a list too.
UserInputChoices ==
    {EmptyDict, [k \in {"other"} |-> <<1>>]}
    \cup {[k \in {"transaction_ids"} |-> ids] :
             ids \in SeqsUpTo(TransactionIds, MaxIds)}
    \cup {[k \in {"transaction_ids", "other"} |->
              IF k = "transaction_ids" THEN ids ELSE <<1>>] :
             ids \in SeqsUpTo(TransactionIds, MaxIds)}

\* What an implementation of execute_scope_script may return for the ids: a
\* dict mapping every id to a string.
ScriptResults(transaction_ids) == [Range(transaction_ids) -> {"a", "b"}]

\* What an implementation of execute_scope_script may raise; the abstract
\* method itself raises NotImplementedError (line 37).
ScriptErrors == {"NotImplementedError", "RuntimeError"}

\* The variables of the Datasets instance.
datasetsVars ==
    <<dss_base, all_meta, net, pc, args, dss, all_scopes, cols, scope_keys,
      request_data, opts, remote_pages, page_nr, transactions, tasks,
      sink_calls, outcome, mpc, mret, session>>

\* An execute call that is about to be made.
InitScript ==
    /\ InitInstance
    /\ dss_base = "None"
    /\ args = NoArgs
    /\ remote_pages = <<>>
    /\ script \in [pc : {"idle"},
                   business_cell_id : BusinessCellChoices,
                   bearer_token : BearerChoices,
                   user_input : UserInputChoices,
                   calls : {<<>>},
                   inner : {[returned |-> FALSE, value |-> EmptyDict]},
                   outcome : {[kind |-> "running", value |-> EmptyDict]}]

\* 'transaction_ids' not in user_input (line 17).
missing_transaction_ids(user_input) == "transaction_ids" \notin DOMAIN user_input

\* A variant of script_arguments that runs the script for all business cells.
script_arguments_all_cells(business_cell_id, bearer_token, user_input) ==
    [business_cell_id |-> "None", bearer_token |-> bearer_token,
     transaction_ids |-> user_input["transaction_ids"]]

\* The arguments of the call of line 20, with line 19's transaction_ids.
script_arguments(business_cell_id, bearer_token, user_input) ==
    [business_cell_id |-> business_cell_id, bearer_token |-> bearer_token,
     transaction_ids |-> user_input["transaction_ids"]]

\* Lines 17-20 up to the call: raise when the key is missing, otherwise call
\* self.execute_scope_script.
Execute ==
    /\ script.pc = "idle"
    /\ IF missing_transaction_ids(script.user_input)
       THEN script' = [script EXCEPT
                          !.pc = "done",
                          !.outcome = [kind |-> "Exception", value |-> EmptyDict]]
       ELSE script' = [script EXCEPT
                          !.pc = "execute_scope_script",
                          !.calls = Append(@, script_arguments(
                                                 script.business_cell_id,
                                                 script.bearer_token,
                                                 script.user_input))]
    /\ UNCHANGED datasetsVars

\* The implementation returns; line 20 returns what it returned.
ExecuteScopeScriptReturns ==
    /\ script.pc = "execute_scope_script"
    /\ \E result \in ScriptResults(script.calls[Len(script.calls)].transaction_ids) :
          script' = [script EXCEPT
                        !.pc = "done",
                        !.inner = [returned |-> TRUE, value |-> result],
                        !.outcome = [kind |-> "returned", value |-> result]]
    /\ UNCHANGED datasetsVars

\* The implementation raises; nothing in execute catches it.
ExecuteScopeScriptRaises ==
    /\ script.pc = "execute_scope_script"
    /\ \E error \in ScriptErrors :
          script' = [script EXCEPT
                        !.pc = "done",
                        !.outcome = [kind |-> error, value |-> EmptyDict]]
    /\ UNCHANGED datasetsVars

NextScript ==
    \/ Execute
    \/ ExecuteScopeScriptReturns
    \/ ExecuteScopeScriptRaises

SpecScript == InitScript /\ [][NextScript]_vars

----------------------------------------------------------------------------
\* Properties.

Requests(kind) == Cardinality({i \in DOMAIN net : net[i] = kind})

\* The scope listing has returned and add_scope has been mapped over the columns.
AddScopesDone == all_scopes # <<>> /\ pc # "add_scopes"

\* _add_scopes returned and lines 186-188 have run.
ScopeKeysDone ==
    AddScopesDone /\ outcome.at # "add_scope" /\ pc # "find_scope_keys"

\* request_data has been built (lines 196-229 ran to the end).
RequestBuilt == request_data # EmptyDict

\* The call has returned and every task that was created has run.
Quiescent ==
    /\ outcome.kind = "returned"
    /\ \A i \in DOMAIN tasks : tasks[i].state # "pending"

\* The scope a selector value names in the catalog, if any.
Names(scope, field, value) ==
    \/ scope # NoneScope /\ scope \in Range(ScopeCatalog) /\ scope[field] = value
    \/ scope = NoneScope
       /\ \A i \in DOMAIN ScopeCatalog : ScopeCatalog[i][field] # value

\* The column is resolved by the one selector it carries.
ResolvedBySelector(column, scope) ==
    /\ "scope_id" \in DOMAIN column => Names(scope, "id", column.scope_id)
    /\ "representation" \in DOMAIN column
          => Names(scope, "representation", column.representation)
    /\ "name_dataset" \in DOMAIN column
          => Names(scope, "name_dataset", column.name_dataset)

OneSelector(column) ==
    Cardinality(DOMAIN column \cap {"scope_id", "representation", "name_dataset"}) = 1

\* The id of the scope a column with one selector names, 0 when it names none.
NamedScopeId(column) ==
    LET hit == {i \in DOMAIN ScopeCatalog :
                  \/ "scope_id" \in DOMAIN column
                     /\ ScopeCatalog[i].id = column.scope_id
                  \/ "representation" \in DOMAIN column
                     /\ ScopeCatalog[i].representation = column.representation
                  \/ "name_dataset" \in DOMAIN column
                     /\ ScopeCatalog[i].name_dataset = column.name_dataset}
    IN IF hit = {} THEN 0 ELSE ScopeCatalog[CHOOSE i \in hit : TRUE].id

\* The ids of the scope values the columns' filters name, in column order.
RECURSIVE FilterIds(_)
FilterIds(columns) ==
    IF columns = <<>> THEN <<>>
    ELSE LET column == Head(columns)
             named == IF "filter" \in DOMAIN column
                      THEN SelectSeq(ScopeValues(NamedScopeId(column)),
                                     LAMBDA sv : \E i \in DOMAIN column.filter :
                                                    column.filter[i] = sv.value)
                      ELSE <<>>
         IN [i \in DOMAIN named |-> named[i].id] \o FilterIds(Tail(columns))

\* C1: when a call given a sink has returned and every task it created has run,
\* the sink has been invoked once per delivered page, in some order, with that
\* page's assembled rows, its page number and the last-page indicator.
C1_SinkInvokedOncePerPage ==
    (Quiescent /\ args.page_cb = "sink") =>
        /\ Len(sink_calls) = Len(remote_pages)
        /\ \A n \in DOMAIN remote_pages :
              \E i \in DOMAIN sink_calls :
                 sink_calls[i] = [page |-> transactions_to_df(remote_pages[n],
                                                              scope_keys),
                                  page_nr |-> n,
                                  last_page |-> Len(remote_pages)]

\* C2: a call whose columns all resolve, one of them with a filter, and whose
\* time boundaries are well formed, sends the query, and the payload holds
\* filter_scope_values: the ids of the scope values named by the filters, in
\* column order; a payload carries the key only when a column has a filter.
C2_FilterScopeValuesSent ==
    /\ (/\ pc = "done"
        /\ ScopeKeysDone
        /\ outcome.at # "_find_scope_keys"
        /\ \E i \in DOMAIN args.columns : "filter" \in DOMAIN args.columns[i]
                                          /\ args.columns[i].filter # <<>>
        /\ args.start_date_time # "str"
        /\ args.end_date_time # "str")
       => /\ Requests("transactions") = 1
          /\ "filter_scope_values" \in DOMAIN request_data
          /\ request_data["filter_scope_values"] = FilterIds(args.columns)
    /\ (RequestBuilt /\ "filter_scope_values" \in DOMAIN request_data)
       => FilterIds(args.columns) # <<>>

\* C3: once add_scope has been mapped over the columns, the call has failed with
\* the ValueError of add_scope exactly when some column has zero or more than one
\* selector; otherwise every column holds the scope its one selector names in
\* the catalog, or None when it names none.
C3_ExactlyOneSelector ==
    AddScopesDone =>
        /\ (outcome = Raised("ValueError", "add_scope"))
              <=> (\E i \in DOMAIN args.columns : ~OneSelector(args.columns[i]))
        /\ (\A i \in DOMAIN args.columns : OneSelector(args.columns[i]))
              => /\ Len(cols) = Len(args.columns)
                 /\ \A i \in DOMAIN cols :
                       ResolvedBySelector(args.columns[i], cols[i].scope)

C3_Witness ==
    /\ outcome = Raised("ValueError", "add_scope")
    /\ Len(args.columns) = 2
    /\ OneSelector(args.columns[1])
    /\ Cardinality(DOMAIN args.columns[2]
                   \cap {"scope_id", "representation", "name_dataset"}) = 2

\* C4 (as stated): when add_scope raises its ValueError, no request has been
\* issued.
C4_NoRequestBeforeValidation ==
    outcome = Raised("ValueError", "add_scope") => net = <<>>

\* C4 (amended): when add_scope raises its ValueError, the scope listing has been
\* requested, preceded by the dataset listing exactly when no base was given at
\* construction, and nothing else: no scope-value fetch, no transaction query.
C4_ValidationAfterListing ==
    outcome = Raised("ValueError", "add_scope") =>
        net = IF dss_base = "None" THEN <<"datasets", "scopes">>
              ELSE <<"scopes">>

C4_Witness ==
    /\ outcome = Raised("ValueError", "add_scope")
    /\ args.columns = <<EmptyDict>>
    /\ net = <<"datasets", "scopes">>

RECURSIVE Flatten(_)
Flatten(pages) == IF pages = <<>> THEN <<>> ELSE Head(pages) \o Flatten(Tail(pages))

\* C5: while the query is being fetched the next page can always be requested
\* and processed, and the result returned, whatever state the scheduled tasks are
\* in; a failure inside a task never becomes the failure of the call; and the
\* call that returns returns the table of every record of every page.
C5_NotificationsIsolated ==
    /\ (pc = "fetching" /\ page_nr < Len(remote_pages)) => ENABLED DeliverPage
    /\ (pc = "fetching" /\ page_nr = Len(remote_pages)) => ENABLED FetchReturns
    /\ outcome.at # "page_cb"
    /\ (\E i \in DOMAIN tasks : tasks[i].state = "failed")
          => outcome.kind \in {"running", "returned", "TransportError"}
    /\ outcome.kind = "returned"
          => /\ Len(outcome.table) = Len(Flatten(remote_pages))
             /\ outcome.table = transactions_to_df(Flatten(remote_pages),
                                                   scope_keys)

C5_Witness ==
    /\ outcome.kind = "returned"
    /\ Len(remote_pages) = 2
    /\ Len(outcome.table) = 4
    /\ \E i \in DOMAIN tasks : tasks[i].state = "failed"
    /\ \E i \in DOMAIN tasks : tasks[i].state = "pending"

\* C6: however index() and get_meta() calls interleave on one instance, the
\* dataset listing is requested at most once, and all calls that returned
\* returned the same listing.
C6_SingleListingFetch ==
    /\ Requests("datasets") <= 1
    /\ \A c, d \in Callers :
          (mpc[c] = "done" /\ mpc[d] = "done") => mret[c].listing = mret[d].listing

BadTime == args.start_date_time = "str" \/ args.end_date_time = "str"

TimeErrors == {Raised("ValueError", "start_date_time"),
               Raised("ValueError", "end_date_time")}

\* C7 (as stated): when a time boundary is rejected, no request has been issued.
C7_NoRequestBeforeTimeCheck ==
    outcome \in TimeErrors => net = <<>>

\* C7 (amended): a call with a time boundary that is neither None nor a datetime
\* never builds a payload, never sends the transaction query and never returns;
\* once the columns are resolved and none of them has a filter, it fails with the
\* ValueError of the first such boundary, and by then the scope listing has been
\* requested (after the dataset listing when no base was given) and nothing
\* else. In a payload a datetime boundary sits under its own key and a None
\* boundary has no key.
C7_TimeBoundaries ==
    /\ BadTime => /\ Requests("transactions") = 0
                  /\ ~RequestBuilt
                  /\ outcome.kind # "returned"
    /\ (/\ BadTime
        /\ pc = "done"
        /\ ScopeKeysDone
        /\ outcome.at # "_find_scope_keys"
        /\ \A i \in DOMAIN args.columns :
              "filter" \in DOMAIN args.columns[i] => args.columns[i].filter = <<>>)
       => outcome = Raised("ValueError",
                           IF args.start_date_time = "str" THEN "start_date_time"
                           ELSE "end_date_time")
    /\ outcome \in TimeErrors
          => /\ BadTime
             /\ net = IF dss_base = "None" THEN <<"datasets", "scopes">>
                      ELSE <<"scopes">>
    /\ RequestBuilt
          => \A k \in {"start_date_time", "end_date_time"} :
                /\ args[k] = "datetime"
                      => k \in DOMAIN request_data /\ request_data[k] = args[k]
                /\ args[k] = "None" => k \notin DOMAIN request_data

C7_Witness ==
    /\ outcome = Raised("ValueError", "end_date_time")
    /\ args.start_date_time = "datetime"
    /\ args.end_date_time = "str"
    /\ Len(args.columns) = 2

\* A column with one selector that names no scope of the catalog.
MissColumn(column) == OneSelector(column) /\ NamedScopeId(column) = 0

ExpectedDefaultKey(scope_id) == IF scope_id = 1 THEN "scope_1" ELSE "scope_2"

\* C9: once scope_keys is built, it has one entry per scope the columns resolve
\* to, and the entry of a scope is the key of the last column resolving to it:
\* the column's `key`, or 'scope_<id>' when it has none. Columns sharing a scope
\* raise nothing.
C9_LastColumnKeyWins ==
    /\ (ScopeKeysDone /\ outcome.at # "_find_scope_keys") =>
          /\ DOMAIN scope_keys
                = {NamedScopeId(args.columns[i]) : i \in DOMAIN args.columns}
          /\ \A s \in DOMAIN scope_keys :
                LET last == CHOOSE i \in DOMAIN args.columns :
                               /\ NamedScopeId(args.columns[i]) = s
                               /\ \A j \in DOMAIN args.columns :
                                     j > i => NamedScopeId(args.columns[j]) # s
                    column == args.columns[last]
                IN scope_keys[s] = IF "key" \in DOMAIN column THEN column.key
                                   ELSE ExpectedDefaultKey(s)
    /\ (ScopeKeysDone /\ \A i \in DOMAIN args.columns :
                            NamedScopeId(args.columns[i]) # 0)
          => outcome.at # "_find_scope_keys"

C9_Witness ==
    /\ pc = "build_request"
    /\ Len(cols) = 2
    /\ cols[1].scope.id = 1
    /\ cols[2].scope.id = 1
    /\ "key" \in DOMAIN cols[1]
    /\ "key" \notin DOMAIN cols[2]
    /\ scope_keys = [s \in {1} |-> "scope_1"]

\* The {scope_id, method} pairs of the columns that declare an aggregation
\* method, in column order.
RECURSIVE DeclaredMethods(_)
DeclaredMethods(columns) ==
    IF columns = <<>> THEN <<>>
    ELSE LET column == Head(columns)
         IN (IF "aggregate" \in DOMAIN column /\ column.aggregate # ""
             THEN <<[scope_id |-> NamedScopeId(column),
                     method |-> column.aggregate]>>
             ELSE <<>>) \o DeclaredMethods(Tail(columns))

\* C10: a payload holds aggregation_methods exactly when some column declares an
\* aggregation method, and then it is the list of one {scope_id, method} pair per
\* such column, in column order.
C10_AggregationMethods ==
    RequestBuilt =>
        /\ "aggregation_methods" \in DOMAIN request_data
              <=> DeclaredMethods(args.columns) # <<>>
        /\ "aggregation_methods" \in DOMAIN request_data
              => request_data["aggregation_methods"] = DeclaredMethods(args.columns)

C10_Witness ==
    /\ Requests("transactions") = 1
    /\ "aggregation_methods" \in DOMAIN request_data
    /\ request_data["aggregation_methods"]
          = <<[scope_id |-> 1, method |-> "avg"], [scope_id |-> 2, method |-> "sum"]>>

\* The columns of the end-to-end example: a scope_id column with a key and a
\* represented column with a filter and an aggregation method.
ExampleColumns ==
    << [scope_id |-> 1, key |-> "rev"],
       [representation |-> "cost", filter |-> <<"A", "B">>, aggregate |-> "sum"] >>

\* C11: every payload holds `aggregate`, equal to the caller's flag, and
\* `select_scopes`, the ids of the scopes the columns name, one per column in
\* column order; and a call with the columns of the end-to-end example and
\* aggregate = true, once its columns are resolved and it has ended, has sent
\* the query with select_scopes [1, 2], aggregation_methods [{2, 'sum'}] and
\* filter_scope_values [21, 22], the ids of the values A and B of scope 2.
C11_PayloadOfExample ==
    /\ RequestBuilt
          => /\ request_data["aggregate"] = opts.aggregate
             /\ request_data["select_scopes"]
                   = [i \in DOMAIN args.columns |-> NamedScopeId(args.columns[i])]
    /\ (/\ args.columns = ExampleColumns
        /\ args.start_date_time # "str"
        /\ args.end_date_time # "str"
        /\ pc = "done"
        /\ ScopeKeysDone
        /\ opts.aggregate)
       => /\ Requests("transactions") = 1
          /\ request_data["aggregate"] = TRUE
          /\ request_data["select_scopes"] = <<1, 2>>
          /\ "aggregation_methods" \in DOMAIN request_data
          /\ request_data["aggregation_methods"]
                = <<[scope_id |-> 2, method |-> "sum"]>>
          /\ "filter_scope_values" \in DOMAIN request_data
          /\ request_data["filter_scope_values"] = <<21, 22>>

\* C12: the table a call returns has one row per record of every page, in the
\* order of pages and of records within a page, duplicates included; each row
\* holds, under the key of every scope of scope_keys, the record's value for
\* that scope, and nothing else. This holds whatever state the tasks created
\* for the pages are in, and no step taken after the call has returned (the
\* tasks keep running) changes the table.
C12_TableIsEveryRecord ==
    /\ [](outcome.kind = "returned" =>
            /\ Len(outcome.table) = Len(Flatten(remote_pages))
            /\ \A i \in DOMAIN outcome.table :
                  /\ DOMAIN outcome.table[i]
                        = {scope_keys[s] : s \in DOMAIN scope_keys}
                  /\ \A s \in DOMAIN scope_keys :
                        outcome.table[i][scope_keys[s]]
                           = Flatten(remote_pages)[i][s])
    /\ [][outcome.kind = "returned" => outcome' = outcome]_vars

C12_Witness ==
    /\ outcome.kind = "returned"
    /\ remote_pages = << <<T2, T1>>, <<T2, T1>> >>
    /\ scope_keys = [s \in {2} |-> "scope_2"]
    /\ outcome.table = << [k \in {"scope_2"} |-> "y2"], [k \in {"scope_2"} |-> "y1"],
                          [k \in {"scope_2"} |-> "y2"], [k \in {"scope_2"} |-> "y1"] >>
    /\ Len(tasks) = 2
    /\ \A i \in DOMAIN tasks : tasks[i].state = "pending"

\* The get_transaction_summary calls whose summary request has been issued.
SummaryIssued(c) ==
    mret[c].op = "get_transaction_summary" /\ mpc[c] \in {"await_op", "done"}

\* C13: a payload holds the intake_status argument when it is not None,
\* otherwise the class default default_dss_intake_status when that is not
\* None, and has no intake_status key exactly when both are None; the summary
\* request of get_transaction_summary is given the argument when it is not
\* None and the class default otherwise.
C13_IntakeStatusFallback ==
    /\ RequestBuilt =>
          /\ opts.intake_status # "None"
                => /\ "intake_status" \in DOMAIN request_data
                   /\ request_data["intake_status"] = opts.intake_status
          /\ (opts.intake_status = "None" /\ opts.default_dss_intake_status # "None")
                => /\ "intake_status" \in DOMAIN request_data
                   /\ request_data["intake_status"] = opts.default_dss_intake_status
          /\ "intake_status" \notin DOMAIN request_data
                <=> (/\ opts.intake_status = "None"
                     /\ opts.default_dss_intake_status = "None")
    /\ \A c \in OpCallers :
          SummaryIssued(c) =>
             mret[c].sent = IF mret[c].intake_status # "None"
                            THEN mret[c].intake_status
                            ELSE mret[c].default_dss_intake_status

C13_Witness ==
    /\ Requests("transactions") = 1
    /\ opts.intake_status = "None"
    /\ opts.default_dss_intake_status = "staged"
    /\ request_data["intake_status"] = "staged"
    /\ \E c \in OpCallers :
          /\ SummaryIssued(c)
          /\ mret[c].intake_status = "done"
          /\ mret[c].default_dss_intake_status = "staged"
          /\ mret[c].sent = "done"

\* The call has ended by an exception.
CallFailed == outcome.kind \notin {"running", "returned"}

\* The statements of lines 184-229 that raise while the payload is built.
BuildFailureSites ==
    {"add_scope", "_find_scope_keys", "_find_scope_value_filters",
     "start_date_time", "end_date_time"}

\* C14: a call that has failed has ended, holds no table, and has sent the
\* transaction query at most once; when the failure arose while the payload was
\* built, no payload exists and the query was never sent; a failure while the
\* pages are fetched is the transport's failure itself, also when records of
\* earlier pages had been collected. A call returns a table only after the last
\* page. After a failure the call's outcome stays what it is and the call
\* issues no further request.
C14_FailurePropagates ==
    /\ [](/\ CallFailed =>
               /\ pc = "done"
               /\ outcome.table = <<>>
               /\ Requests("transactions") <= 1
          /\ (CallFailed /\ outcome.at \in BuildFailureSites) =>
               /\ outcome.kind \in {"ValueError", "AttributeError"}
               /\ request_data = EmptyDict
               /\ Requests("transactions") = 0
          /\ (CallFailed /\ outcome.at = "fetching") =>
               /\ outcome.kind = "TransportError"
               /\ Requests("transactions") = 1
          /\ outcome.kind = "returned" => page_nr = Len(remote_pages))
    /\ [][CallFailed => (outcome' = outcome /\ net' = net /\ pc' = pc)]_vars

C14_Witness ==
    /\ outcome = Raised("TransportError", "fetching")
    /\ page_nr = 1
    /\ Len(transactions) = 2
    /\ net = <<"scopes", "transactions">>

\* C15: over the get_transactions call and the get_scopes calls made on the
\* instance, all for the same dataset and business cell, the scope listing is
\* requested at most once.
C15_SingleScopeListing == Requests("scopes") <= 1

\* The number of columns the caller passed with a filter that is not empty.
FilteredColumnCount ==
    Cardinality({i \in DOMAIN args.columns :
                    /\ "filter" \in DOMAIN args.columns[i]
                    /\ args.columns[i].filter # <<>>})

\* C16: a get_transactions call never requests scope values more often than it
\* has columns with a filter; once its columns are resolved and lines 189-195
\* have run, it has requested them once per such column; and every such request
\* precedes the transaction query.
C16_ScopeValuesFetchedPerFilter ==
    /\ Requests("scope_values") <= FilteredColumnCount
    /\ (/\ ScopeKeysDone
        /\ outcome.at # "_find_scope_keys"
        /\ pc \in {"send", "fetching", "done"})
       => Requests("scope_values") = FilteredColumnCount
    /\ \A i, j \in DOMAIN net :
          (net[i] = "transactions" /\ net[j] = "scope_values") => j < i

\* C17: while the `async with` scope is entered the client is open; once the
\* scope is left the client is closed, whether the block ended normally or by
\* an exception, and the exception the block ended by, that of the failed
\* get_transactions call included, is the one that leaves the statement.
C17_ClientClosedOnExit ==
    /\ session.state = "entered" => session.client = "open"
    /\ session.state = "exited" =>
          /\ session.client = "closed"
          /\ CallFailed => session.raised = outcome.kind
          /\ (outcome.kind = "returned" /\ \A c \in Callers : mpc[c] # "failed")
                => session.raised = "None"
          /\ session.propagated = session.raised

C17_Witness ==
    /\ session.state = "exited"
    /\ session.client = "closed"
    /\ outcome = Raised("TransportError", "fetching")
    /\ session.propagated = "TransportError"

\* C18: a call that was passed no sink (page_cb is None) creates no task, for
\* any page.
C18_NoSinkNoTask == args.page_cb = "None" => tasks = <<>>

\* The base is the dss_url of the entry of the memoized listing whose id is the
\* dataset id of the calls.
IsMemoizedDssUrl(base) ==
    /\ all_meta.fetched
    /\ \E i \in DOMAIN all_meta.datasets :
          /\ all_meta.datasets[i].id = args.dataset_id
          /\ all_meta.datasets[i].dss_url = base

\* The calls of get_scopes, get_scope_values and get_transaction_summary that
\* have issued their request.
OpIssued(c) == mret[c].op \in Ops /\ mpc[c] \in {"await_op", "done"}

\* C19: with a base given at construction, the dataset listing is never
\* requested and never stored, and get_transactions and every other operation
\* use the given base; with none given, the base get_transactions and every
\* other operation use is the dss_url of the entry of the memoized listing with
\* the dataset's id, and the first request issued is that of the listing.
C19_BaseResolution ==
    /\ dss_base # "None" =>
          /\ Requests("datasets") = 0
          /\ ~all_meta.fetched
          /\ dss \in {"None", dss_base}
          /\ pc \notin {"idle", "done"} => dss = dss_base
          /\ \A c \in OpCallers : OpIssued(c) => mret[c].base = dss_base
    /\ dss_base = "None" =>
          /\ dss # "None" => IsMemoizedDssUrl(dss)
          /\ \A c \in OpCallers : OpIssued(c) => IsMemoizedDssUrl(mret[c].base)
          /\ net # <<>> => net[1] = "datasets"

C19_Witness ==
    /\ dss_base = "dss_x"
    /\ outcome.kind = "returned"
    /\ dss = "dss_x"
    /\ \E c \in OpCallers : mpc[c] = "done" /\ mret[c].base = "dss_x"
    /\ Len(net) = 3
    /\ Requests("datasets") = 0

\* C20: no step of a get_transactions call changes the list the caller passed
\* or a dict in it: the caller's columns never hold a `scope` or `scope_values`
\* entry, whether the call succeeds or fails; and attaching the scope values
\* (lines 191-193) leaves columns_with_scopes as it was.
C20_CallerColumnsUnchanged ==
    /\ [][args'.columns = args.columns]_vars
    /\ [](\A i \in DOMAIN args.columns :
             DOMAIN args.columns[i] \cap {"scope", "scope_values"} = {})
    /\ [][pc = "build_request" => cols' = cols]_vars

C20_Witness ==
    /\ outcome = Raised("AttributeError", "_find_scope_value_filters")
    /\ args.columns = ExampleColumns
    /\ Len(cols) = 2
    /\ \A i \in DOMAIN cols : "scope" \in DOMAIN cols[i]

\* C21: an execute call whose user_input has no 'transaction_ids' key never
\* invokes execute_scope_script and ends by the Exception of line 18; a call
\* whose user_input has the key invokes execute_scope_script once, with the
\* business cell id and bearer token it was given and the list under
\* 'transaction_ids' as it is, never raises that Exception, and when it returns,
\* returns what the invocation returned.
C21_ExecuteDelegates ==
    script.pc # "none" =>
        /\ "transaction_ids" \notin DOMAIN script.user_input =>
              /\ script.calls = <<>>
              /\ script.pc = "done" => script.outcome.kind = "Exception"
        /\ ("transaction_ids" \in DOMAIN script.user_input /\ script.pc # "idle") =>
              /\ Len(script.calls) = 1
              /\ script.calls[1].business_cell_id = script.business_cell_id
              /\ script.calls[1].bearer_token = script.bearer_token
              /\ script.calls[1].transaction_ids
                    = script.user_input["transaction_ids"]
              /\ script.outcome.kind # "Exception"
        /\ script.outcome.kind = "returned" =>
              /\ script.inner.returned
              /\ script.outcome.value = script.inner.value

C21_Witness ==
    /\ script.pc = "done"
    /\ script.outcome.kind = "returned"
    /\ script.business_cell_id = "bc_7"
    /\ DOMAIN script.user_input = {"transaction_ids", "other"}
    /\ script.calls[1].transaction_ids = <<2, 2>>
    /\ script.outcome.value = [i \in {2} |-> "b"]

====
